---- MODULE Spec2Model ----
(***************************************************************************)
(* ClinicalAnon: the entity span consolidator of CurrentEngine             *)
(* (pii-comparison-test/engines/current_engine.py) and the subword         *)
(* tokenizer of scripts/test_text_xlmr.py.                                 *)
(*                                                                         *)
(* Positions are 0-based half-open offsets as in the Python source; TLA+   *)
(* sequences are 1-based, so text[start:end] is SubSeq(text, start+1, end) *)
(* and list index k of the source is index k+1 here.  Confidences are the  *)
(* source's values in hundredths (0.95 is 95).                             *)
(***************************************************************************)
EXTENDS Integers, Sequences, FiniteSets, TLC

\* ------------------------------------------------------------------ bounds
\* Length of the document handed to detect (2: spans nest, touch or
\* coincide; from 3 on they also overlap partially).
MaxPos == 2
\* Most candidates the recognizers hand to the consolidator in one pass.
MaxCands == 3
\* Length of the longest text handed to the tokenizer.
MaxText == 4
\* The token budget of the tokenizer (the source sets 512).
MAX_LEN == 5

\* ------------------------------------------------------------ consolidator
\* The document: characters alternate lower and upper case, so that equal
\* and case-variant substrings occur at different positions.
Doc == [k \in 1..MaxPos |-> IF k % 2 = 1 THEN "a" ELSE "A"]

\* str.lower(), character by character.
LowerChar(c) ==
    CASE c = "A" -> "a" [] c = "B" -> "b" [] c = "J" -> "j" [] c = "P" -> "p"
      [] c = "R" -> "r" [] c = "S" -> "s" [] c = "T" -> "t" [] OTHER -> c
Lower(s) == [k \in 1..Len(s) |-> LowerChar(s[k])]

\* What a recognizer fixes for every span it emits: type, confidence, source.
MaoriDict == [entity_type |-> "PERSON_OTHER", confidence |-> 95, source |-> "current_maori_dict"]
Relationship == [entity_type |-> "PERSON_OTHER", confidence |-> 90, source |-> "current_relationship"]
Dhb == [entity_type |-> "ORGANIZATION", confidence |-> 90, source |-> "current_dhb"]
Recognizers == {MaoriDict, Relationship, Dhb}

\* DetectedEntity: a recognizer's match of Doc[start:end].
DetectedEntity(r, s, e) ==
    [text |-> SubSeq(Doc, s + 1, e), entity_type |-> r.entity_type, start |-> s,
     end |-> e, confidence |-> r.confidence, source |-> r.source]

\* Every candidate a recognizer can emit on Doc: a non-empty match, so
\* start < end.
Candidates ==
    {DetectedEntity(r, iv[1], iv[2]) :
        r \in Recognizers,
        iv \in {p \in (0..MaxPos) \X (0..MaxPos) : p[1] < p[2]}}

\* The sort key of _remove_overlaps, (e.start, -e.end), compared as Python
\* compares tuples.
KeyLess(a, b) ==
    \/ a.start < b.start
    \/ a.start = b.start /\ (0 - a.end) < (0 - b.end)

\* list.sort is stable: e goes behind every element whose key is not greater.
RECURSIVE InsertSorted(_, _)
InsertSorted(sorted, e) ==
    IF sorted = <<>> THEN <<e>>
    ELSE IF KeyLess(e, Head(sorted)) THEN <<e>> \o sorted
    ELSE <<Head(sorted)>> \o InsertSorted(Tail(sorted), e)

\* Mutant: the list is swept in the order it was handed over.
SortByStart_Unsorted(ents) == ents

RECURSIVE SortByStart(_)
SortByStart(ents) ==
    IF ents = <<>> THEN <<>>
    ELSE InsertSorted(SortByStart(SubSeq(ents, 1, Len(ents) - 1)), ents[Len(ents)])

\* Mutant: spans that only touch count as overlapping.
Overlap_Touching(current, other) ==
    ~(current.end < other.start \/ other.end < current.start)

\* The overlap test of _remove_overlaps.
Overlap(current, other) ==
    ~(current.end <= other.start \/ other.end <= current.start)

\* Mutant: on a confidence tie the shorter text wins.
Better_ShorterText(current, other) ==
    IF other.confidence > current.confidence THEN other
    ELSE IF other.confidence = current.confidence /\ Len(other.text) < Len(current.text)
         THEN other
    ELSE current

\* Mutant: text length is compared before confidence.
Better_LengthFirst(current, other) ==
    IF Len(other.text) > Len(current.text) THEN other
    ELSE IF Len(other.text) = Len(current.text) /\ other.confidence > current.confidence
         THEN other
    ELSE current

\* Mutant: on a full tie the later candidate wins.
Better_LaterOnTie(current, other) ==
    IF other.confidence > current.confidence THEN other
    ELSE IF other.confidence = current.confidence /\ Len(other.text) >= Len(current.text)
         THEN other
    ELSE current

\* Mutant: the survivor is widened to cover the loser.
Better_Widened(current, other) ==
    LET survivor == IF other.confidence > current.confidence THEN other
                    ELSE IF other.confidence = current.confidence
                            /\ Len(other.text) > Len(current.text)
                         THEN other
                    ELSE current
    IN [survivor EXCEPT
           !.start = IF current.start < other.start THEN current.start ELSE other.start,
           !.end = IF current.end > other.end THEN current.end ELSE other.end]

\* The survivor of an overlap: strictly higher confidence, then strictly
\* longer text, else the incumbent.
Better(current, other) ==
    IF other.confidence > current.confidence THEN other
    ELSE IF other.confidence = current.confidence /\ Len(other.text) > Len(current.text)
         THEN other
    ELSE current

\* list.pop(j), j 1-based.
Pop(ents, j) == SubSeq(ents, 1, j - 1) \o SubSeq(ents, j + 1, Len(ents))

\* The inner while loop: compares current with entities[j..], popping every
\* element that overlaps the current survivor.
RECURSIVE InnerLoop(_, _, _)
InnerLoop(ents, j, current) ==
    IF j > Len(ents) THEN [entities |-> ents, current |-> current]
    ELSE IF Overlap(current, ents[j])
         THEN InnerLoop(Pop(ents, j), j, Better(current, ents[j]))
         ELSE InnerLoop(ents, j + 1, current)

\* The outer while loop: one result element per remaining position i.
RECURSIVE OuterLoop(_, _, _)
OuterLoop(ents, i, result) ==
    IF i > Len(ents) THEN [entities |-> ents, result |-> result]
    ELSE LET r == InnerLoop(ents, i + 1, ents[i])
         IN OuterLoop(r.entities, i + 1, Append(result, r.current))

\* _remove_overlaps: the returned list, and the caller's list object as the
\* call leaves it (sorted in place, overlapped elements popped).
RemoveOverlaps(ents) ==
    IF ents = <<>> THEN [entities |-> ents, result |-> ents]
    ELSE OuterLoop(SortByStart(ents), 1, <<>>)

\* Mutant: the key is the lowercased text alone.
DedupKey_TextOnly(e) == <<Lower(e.text)>>

\* The key of _deduplicate.
DedupKey(e) == <<Lower(e.text), e.start, e.end>>

RECURSIVE DedupLoop(_, _, _)
DedupLoop(ents, seen, result) ==
    IF ents = <<>> THEN result
    ELSE IF DedupKey(Head(ents)) \in seen
         THEN DedupLoop(Tail(ents), seen, result)
         ELSE DedupLoop(Tail(ents), seen \cup {DedupKey(Head(ents))},
                        Append(result, Head(ents)))

\* _deduplicate.
Deduplicate(ents) == DedupLoop(ents, {}, <<>>)

\* The consolidator as detect runs it: _remove_overlaps, then _deduplicate.
Consolidated(ents) == Deduplicate(RemoveOverlaps(ents).result)

VARIABLES
    entities,   \* the list object detect builds and hands to _remove_overlaps
    handed,     \* that list as it was when the first run received it
    results,    \* the list returned by each consolidator run, in order
    again       \* the list returned by a run on the list the first run returned

consVars == <<entities, handed, results, again>>

ConsInit ==
    /\ entities = <<>>
    /\ handed = <<>>
    /\ results = <<>>
    /\ again = <<>>

\* detect, lines 118-139: a recognizer's candidate is joined to the list.
Extend(e) ==
    /\ results = <<>>
    /\ Len(entities) < MaxCands
    /\ entities' = Append(entities, e)
    /\ UNCHANGED <<handed, results, again>>

\* detect, lines 142-143: _remove_overlaps, which sorts and pops in the list
\* it is given, then _deduplicate on what it returned.
Consolidate ==
    /\ results = <<>>
    /\ handed' = entities
    /\ entities' = RemoveOverlaps(entities).entities
    /\ results' = <<Consolidated(entities)>>
    /\ UNCHANGED again

\* A caller runs the consolidator a second time on the same list object.
Reconsolidate ==
    /\ Len(results) = 1
    /\ entities' = RemoveOverlaps(entities).entities
    /\ results' = Append(results, Consolidated(entities))
    /\ UNCHANGED <<handed, again>>

\* A caller runs the consolidator on the list the first run returned, which
\* _remove_overlaps sorts and pops in place.
ConsolidateReturned ==
    /\ results # <<>>
    /\ again = <<>>
    /\ again' = <<Consolidated(results[1])>>
    /\ results' = [results EXCEPT ![1] = RemoveOverlaps(results[1]).entities]
    /\ UNCHANGED <<entities, handed>>

\* --------------------------------------------------------------- tokenizer
\* tokenize of scripts/test_text_xlmr.py.  A string is a sequence of
\* one-character strings; "_" stands for the word-boundary marker U+2581.
CLS_ID == 0
SEP_ID == 2
PAD_ID == 1
prefix == "_"
\* The characters of the texts; str.isspace holds of " " alone among them.
Alphabet == {"a", "b", " "}
IsSpace(c) == c = " "
\* Texts of up to MaxText characters.
Texts == UNION {[1..n -> Alphabet] : n \in 0..MaxText}

\* The pieces a vocabulary file can hold here, and the id of each.
Pieces == {<<"_">>, <<"_", "a">>, <<"a">>, <<"_", "a", "b">>, <<"b">>}
PieceId(p) ==
    CASE p = <<"_">> -> 4
      [] p = <<"_", "a">> -> 5
      [] p = <<"a">> -> 6
      [] p = <<"_", "a", "b">> -> 7
      [] p = <<"b">> -> 8
\* load_vocab: a dict from piece to id.
Vocabs == {[p \in S |-> PieceId(p)] : S \in SUBSET Pieces}
\* dict.get(key, default).
Get(dict, key, default) == IF key \in DOMAIN dict THEN dict[key] ELSE default
\* unk_id: "<unk>" is no piece of these vocabularies, so the default applies.
UnkId(dict) == 3

\* [x] * n, which is empty for n <= 0.
Repeat(x, n) == [k \in 1..n |-> x]
\* s[:n].
Take(s, n) == SubSeq(s, 1, IF Len(s) < n THEN Len(s) ELSE n)
\* s[n:].
Drop(s, n) == SubSeq(s, n + 1, Len(s))

VARIABLES
    tok_text,       \* text
    vocab,          \* vocab
    tok_i,          \* i, the scan position
    tok_j,          \* j, the end of the current word
    remaining,      \* the unconsumed suffix of the current word
    offset,         \* the position of remaining in the text
    is_first,       \* no subword of the current word was emitted yet
    input_ids,
    token_to_char,
    attention_mask,
    tpc             \* where tokenize is: "scan", "word", "sep" or "done"

tokVars == <<tok_text, vocab, tok_i, tok_j, remaining, offset, is_first,
             input_ids, token_to_char, attention_mask, tpc>>

\* Lines 25-30, for the text and vocabulary of one call.
TokStart(t, v) ==
    /\ tok_text = t
    /\ vocab = v
    /\ tok_i = 0
    /\ tok_j = 0
    /\ remaining = <<>>
    /\ offset = 0
    /\ is_first = TRUE
    /\ input_ids = <<CLS_ID>>
    /\ token_to_char = << <<-1, -1>> >>
    /\ attention_mask = <<>>
    /\ tpc = "scan"

TokInit == \E t \in Texts, v \in Vocabs : TokStart(t, v)

\* Lines 31-34: a whitespace character is passed over.
SkipSpace ==
    /\ tpc = "scan"
    /\ tok_i < Len(tok_text)
    /\ IsSpace(tok_text[tok_i + 1])
    /\ tok_i' = tok_i + 1
    /\ UNCHANGED <<tok_text, vocab, tok_j, remaining, offset, is_first,
                   input_ids, token_to_char, attention_mask, tpc>>

\* The end of the word that starts at position k: the first whitespace
\* position behind it, or the end of the text.
RECURSIVE WordEnd(_, _)
WordEnd(t, k) ==
    IF k < Len(t) /\ ~IsSpace(t[k + 1]) THEN WordEnd(t, k + 1) ELSE k

\* Mutant: offsets are counted from the start of the word, not of the text.
BeginWord_WordOffsets ==
    /\ tpc = "scan"
    /\ tok_i < Len(tok_text)
    /\ ~IsSpace(tok_text[tok_i + 1])
    /\ tok_j' = WordEnd(tok_text, tok_i)
    /\ remaining' = SubSeq(tok_text, tok_i + 1, WordEnd(tok_text, tok_i))
    /\ offset' = 0
    /\ is_first' = TRUE
    /\ tpc' = "word"
    /\ UNCHANGED <<tok_text, vocab, tok_i, input_ids, token_to_char, attention_mask>>

\* Lines 35-45: the word at the scan position is taken up.
BeginWord ==
    /\ tpc = "scan"
    /\ tok_i < Len(tok_text)
    /\ ~IsSpace(tok_text[tok_i + 1])
    /\ tok_j' = WordEnd(tok_text, tok_i)
    /\ remaining' = SubSeq(tok_text, tok_i + 1, WordEnd(tok_text, tok_i))
    /\ offset' = tok_i
    /\ is_first' = TRUE
    /\ tpc' = "word"
    /\ UNCHANGED <<tok_text, vocab, tok_i, input_ids, token_to_char, attention_mask>>

\* Line 47.
Prefixed == IF is_first THEN <<prefix>> \o remaining ELSE remaining
\* The lengths of the prefixes of s that are pieces of the vocabulary.
MatchLengths(s) == {n \in 1..Len(s) : SubSeq(s, 1, n) \in DOMAIN vocab}
\* Mutant: the shortest prefix that is a piece is taken.
LongestMatch_Shortest(s) == CHOOSE n \in MatchLengths(s) : \A m \in MatchLengths(s) : n <= m
\* Lines 49-51: the first length found counting down from len(prefixed).
LongestMatch(s) == CHOOSE n \in MatchLengths(s) : \A m \in MatchLengths(s) : m <= n

\* Mutant: the budget check lets one more token in.
AfterToken_LateStop(ids, rest) ==
    /\ tpc' = IF Len(ids) >= MAX_LEN THEN "sep"
              ELSE IF rest = <<>> THEN "scan" ELSE "word"
    /\ tok_i' = IF Len(ids) >= MAX_LEN \/ rest = <<>> THEN tok_j ELSE tok_i

\* Lines 68-72: after a token the budget is checked; at MAX_LEN - 1 tokens both
\* loops are left, and a word that is used up hands back to the scan at j.
AfterToken(ids, rest) ==
    /\ tpc' = IF Len(ids) >= MAX_LEN - 1 THEN "sep"
              ELSE IF rest = <<>> THEN "scan" ELSE "word"
    /\ tok_i' = IF Len(ids) >= MAX_LEN - 1 \/ rest = <<>> THEN tok_j ELSE tok_i

\* Mutant: a match of the bare marker leaves the word as it is.
MatchToken_KeepsWord ==
    /\ tpc = "word"
    /\ MatchLengths(Prefixed) # {}
    /\ LET length == LongestMatch(Prefixed)
           candidate == SubSeq(Prefixed, 1, length)
           actual_len == IF is_first THEN length - 1 ELSE length
           rest == Drop(remaining, actual_len)
       IN /\ input_ids' = Append(input_ids, vocab[candidate])
          /\ token_to_char' = Append(token_to_char, <<offset, offset + actual_len>>)
          /\ remaining' = rest
          /\ offset' = offset + actual_len
          /\ is_first' = FALSE
          /\ AfterToken(Append(input_ids, vocab[candidate]), rest)
    /\ UNCHANGED <<tok_text, vocab, tok_j, attention_mask>>

\* Mutant: the range of a first subword counts the marker as a character.
MatchToken_MarkerCounted ==
    /\ tpc = "word"
    /\ MatchLengths(Prefixed) # {}
    /\ LET length == LongestMatch(Prefixed)
           candidate == SubSeq(Prefixed, 1, length)
           actual_len == IF is_first THEN length - 1 ELSE length
           rest == IF actual_len > 0 THEN Drop(remaining, actual_len) ELSE <<>>
       IN /\ input_ids' = Append(input_ids, vocab[candidate])
          /\ token_to_char' = Append(token_to_char, <<offset, offset + length>>)
          /\ remaining' = rest
          /\ offset' = offset + actual_len
          /\ is_first' = FALSE
          /\ AfterToken(Append(input_ids, vocab[candidate]), rest)
    /\ UNCHANGED <<tok_text, vocab, tok_j, attention_mask>>

\* Lines 49-59: the longest prefix that is a piece becomes a token.
MatchToken ==
    /\ tpc = "word"
    /\ MatchLengths(Prefixed) # {}
    /\ LET length == LongestMatch(Prefixed)
           candidate == SubSeq(Prefixed, 1, length)
           actual_len == IF is_first THEN length - 1 ELSE length
           rest == IF actual_len > 0 THEN Drop(remaining, actual_len) ELSE <<>>
       IN /\ input_ids' = Append(input_ids, vocab[candidate])
          /\ token_to_char' = Append(token_to_char, <<offset, offset + actual_len>>)
          /\ remaining' = rest
          /\ offset' = offset + actual_len
          /\ is_first' = FALSE
          /\ AfterToken(Append(input_ids, vocab[candidate]), rest)
    /\ UNCHANGED <<tok_text, vocab, tok_j, attention_mask>>

\* Mutant: the bare character is not looked up.
FallbackToken_NoBareLookup ==
    /\ tpc = "word"
    /\ MatchLengths(Prefixed) = {}
    /\ LET char == <<remaining[1]>>
           char_piece == IF is_first THEN <<prefix>> \o char ELSE char
           id == Get(vocab, char_piece, UnkId(vocab))
       IN /\ input_ids' = Append(input_ids, id)
          /\ token_to_char' = Append(token_to_char, <<offset, offset + 1>>)
          /\ remaining' = Drop(remaining, 1)
          /\ offset' = offset + 1
          /\ is_first' = FALSE
          /\ AfterToken(Append(input_ids, id), Drop(remaining, 1))
    /\ UNCHANGED <<tok_text, vocab, tok_j, attention_mask>>

\* Lines 60-67: no prefix is a piece, and one character becomes a token.
FallbackToken ==
    /\ tpc = "word"
    /\ MatchLengths(Prefixed) = {}
    /\ LET char == <<remaining[1]>>
           char_piece == IF is_first THEN <<prefix>> \o char ELSE char
           id == Get(vocab, char_piece, Get(vocab, char, UnkId(vocab)))
       IN /\ input_ids' = Append(input_ids, id)
          /\ token_to_char' = Append(token_to_char, <<offset, offset + 1>>)
          /\ remaining' = Drop(remaining, 1)
          /\ offset' = offset + 1
          /\ is_first' = FALSE
          /\ AfterToken(Append(input_ids, id), Drop(remaining, 1))
    /\ UNCHANGED <<tok_text, vocab, tok_j, attention_mask>>

\* Lines 74-79: the separator is appended, the three lists are padded to
\* MAX_LEN and cut to MAX_LEN.
Finish ==
    /\ tpc = "sep" \/ (tpc = "scan" /\ tok_i >= Len(tok_text))
    /\ LET ids == Append(input_ids, SEP_ID)
           map == Append(token_to_char, <<-1, -1>>)
       IN /\ attention_mask' =
                 Take(Repeat(1, Len(ids)) \o Repeat(0, MAX_LEN - Len(ids)), MAX_LEN)
          /\ input_ids' = Take(ids \o Repeat(PAD_ID, MAX_LEN - Len(ids)), MAX_LEN)
          /\ token_to_char' =
                 Take(map \o Repeat(<<-1, -1>>, MAX_LEN - Len(map)), MAX_LEN)
    /\ tpc' = "done"
    /\ UNCHANGED <<tok_text, vocab, tok_i, tok_j, remaining, offset, is_first>>

\* ------------------------------------------------------- simple_tokenize
\* simple_tokenize of scripts/test_xlmr_coreml.py, called with the default
\* max_length, which is MAX_LEN here.  It runs on the tokenizer's variables
\* and keeps two more.
CLS_TOKEN_ID == 0
SEP_TOKEN_ID == 2
PAD_TOKEN_ID == 1
\* unk_id: "<unk>" is no piece of these vocabularies, so the default applies.
SimpleUnkId(dict) == 0

VARIABLES
    tok_fn,         \* the function that runs: "tokenize" or "simple_tokenize"
    words           \* the words the loop over words has not taken yet

simVars == <<tok_fn, words>>

\* Lines 54-72: the (word, start, end) triples of the words of t behind
\* position k, in text order.
RECURSIVE SplitWords(_, _)
SplitWords(t, k) ==
    IF k >= Len(t) THEN <<>>
    ELSE IF IsSpace(t[k + 1]) THEN SplitWords(t, k + 1)
    ELSE << <<SubSeq(t, k + 1, WordEnd(t, k)), k, WordEnd(t, k)>> >>
             \o SplitWords(t, WordEnd(t, k))

\* No simple_tokenize call: tokenize owns the tokenizer's variables.
SimpleIdle == tok_fn = "tokenize" /\ words = <<>>

\* Lines 47-72, for the text and vocabulary of one call.
SimpleStart(t, v) ==
    /\ tok_fn = "simple_tokenize"
    /\ words = SplitWords(t, 0)
    /\ tok_text = t
    /\ vocab = v
    /\ tok_i = 0
    /\ tok_j = 0
    /\ remaining = <<>>
    /\ offset = 0
    /\ is_first = TRUE
    /\ input_ids = <<CLS_TOKEN_ID>>
    /\ token_to_char = << <<-1, -1>> >>
    /\ attention_mask = <<>>
    /\ tpc = "scan"

SimpleInit == \E t \in Texts, v \in Vocabs : SimpleStart(t, v)

\* Lines 75-78: the loop over words takes the next word.
SimpleBeginWord ==
    /\ tok_fn = "simple_tokenize"
    /\ tpc = "scan"
    /\ words # <<>>
    /\ remaining' = Head(words)[1]
    /\ offset' = Head(words)[2]
    /\ is_first' = TRUE
    /\ words' = Tail(words)
    /\ tpc' = "word"
    /\ UNCHANGED <<tok_fn, tok_text, vocab, tok_i, tok_j, input_ids,
                   token_to_char, attention_mask>>

\* Lines 80 and 117-118: the loop over the word runs until the word is used
\* up, and only then is the budget checked.
AfterSimpleToken(ids, rest) ==
    tpc' = IF rest # <<>> THEN "word"
           ELSE IF Len(ids) >= MAX_LEN - 1 THEN "sep" ELSE "scan"

\* Lines 82-103: the longest prefix that is a piece becomes a token.
SimpleMatchToken ==
    /\ tok_fn = "simple_tokenize"
    /\ tpc = "word"
    /\ MatchLengths(Prefixed) # {}
    /\ LET length == LongestMatch(Prefixed)
           candidate == SubSeq(Prefixed, 1, length)
           token_id == vocab[candidate]
           actual_length == IF is_first THEN length - 1 ELSE length
           rest == IF actual_length > 0 THEN Drop(remaining, actual_length) ELSE <<>>
       IN /\ input_ids' = Append(input_ids, token_id)
          /\ token_to_char' = Append(token_to_char, <<offset, offset + actual_length>>)
          /\ remaining' = rest
          /\ offset' = IF actual_length > 0 THEN offset + actual_length ELSE offset
          /\ is_first' = FALSE
          /\ AfterSimpleToken(Append(input_ids, token_id), rest)
    /\ UNCHANGED <<tok_fn, words, tok_text, vocab, tok_i, tok_j, attention_mask>>

\* Lines 105-115: no prefix is a piece, and one character becomes a token.
SimpleFallbackToken ==
    /\ tok_fn = "simple_tokenize"
    /\ tpc = "word"
    /\ MatchLengths(Prefixed) = {}
    /\ LET char == <<remaining[1]>>
           char_piece == IF is_first THEN <<prefix>> \o char ELSE char
           token_id == Get(vocab, char_piece, Get(vocab, char, SimpleUnkId(vocab)))
       IN /\ input_ids' = Append(input_ids, token_id)
          /\ token_to_char' = Append(token_to_char, <<offset, offset + 1>>)
          /\ remaining' = Drop(remaining, 1)
          /\ offset' = offset + 1
          /\ is_first' = FALSE
          /\ AfterSimpleToken(Append(input_ids, token_id), Drop(remaining, 1))
    /\ UNCHANGED <<tok_fn, words, tok_text, vocab, tok_i, tok_j, attention_mask>>

\* Lines 120-129: the separator is appended, the three lists are padded to
\* max_length and cut to max_length.
SimpleFinish ==
    /\ tok_fn = "simple_tokenize"
    /\ tpc = "sep" \/ (tpc = "scan" /\ words = <<>>)
    /\ LET ids == Append(input_ids, SEP_TOKEN_ID)
           map == Append(token_to_char, <<-1, -1>>)
       IN /\ attention_mask' =
                 Take(Repeat(1, Len(ids)) \o Repeat(0, MAX_LEN - Len(ids)), MAX_LEN)
          /\ input_ids' = Take(ids \o Repeat(PAD_TOKEN_ID, MAX_LEN - Len(ids)), MAX_LEN)
          /\ token_to_char' =
                 Take(map \o Repeat(<<-1, -1>>, MAX_LEN - Len(map)), MAX_LEN)
    /\ tpc' = "done"
    /\ UNCHANGED <<tok_fn, words, tok_text, vocab, tok_i, tok_j, remaining,
                   offset, is_first>>


\* ------------------------------------------------------------ tag decoder
\* run_ner of scripts/test_text_xlmr.py: the text is tokenized, the classifier
\* gives one prediction per position, and the predictions are decoded into
\* spans.  A label is a sequence of one-character strings.
ID2LABEL ==
    [k \in 0..8 |->
        CASE k = 0 -> <<"O">>
          [] k = 1 -> <<"B", "-", "D", "A", "T", "E">>
          [] k = 2 -> <<"I", "-", "D", "A", "T", "E">>
          [] k = 3 -> <<"B", "-", "P", "E", "R">>
          [] k = 4 -> <<"I", "-", "P", "E", "R">>
          [] k = 5 -> <<"B", "-", "O", "R", "G">>
          [] k = 6 -> <<"I", "-", "O", "R", "G">>
          [] k = 7 -> <<"B", "-", "L", "O", "C">>
          [] k = 8 -> <<"I", "-", "L", "O", "C">>]
\* The predictions the classifier gives here: O, B-PER, I-PER and B-LOC.
Preds == {0, 3, 4, 7}
\* The vocabulary file of run_ner here: the bare marker and "_a".
NerVocab == [p \in {<<"_">>, <<"_", "a">>} |-> PieceId(p)]
\* s.startswith(p).
StartsWith(s, p) == Len(s) >= Len(p) /\ SubSeq(s, 1, Len(p)) = p
\* An index of a slice of a sequence of length n, as Python places it.
SliceIndex(k, n) == IF k < 0 THEN (IF k + n < 0 THEN 0 ELSE k + n)
                    ELSE IF k > n THEN n ELSE k
\* t[a:b].
Slice(t, a, b) == SubSeq(t, SliceIndex(a, Len(t)) + 1, SliceIndex(b, Len(t)))

VARIABLES
    predictions,    \* the predictions the loop has read, in order
    current,        \* the open span: <<>> for None, else <<the dict>>
    ner_entities,   \* entities, the spans emitted so far
    dpc             \* where run_ner is: "idle", "loop", "flush" or "done"

decVars == <<predictions, current, ner_entities, dpc>>

\* No decoding is going on.
DecIdle ==
    /\ predictions = <<>>
    /\ current = <<>>
    /\ ner_entities = <<>>
    /\ dpc = "idle"

\* Lines 87-98: tokenize has returned, the classifier has run, and the loop
\* over its predictions starts.
DecStart ==
    /\ tok_fn = "tokenize"
    /\ tpc = "done"
    /\ dpc = "idle"
    /\ dpc' = "loop"
    /\ UNCHANGED <<predictions, current, ner_entities>>

\* Mutant: an inside-label of another type than the open span ends the span.
DecodeToken_TypeChecked(label, char_start, char_end) ==
    IF StartsWith(label, <<"B", "-">>)
    THEN /\ ner_entities' = ner_entities \o current
         /\ current' = << [type |-> Drop(label, 2),
                            start |-> char_start,
                            end |-> char_end,
                            text |-> IF char_start >= 0
                                     THEN Slice(tok_text, char_start, char_end)
                                     ELSE <<>>] >>
    ELSE IF /\ StartsWith(label, <<"I", "-">>)
            /\ current # <<>>
            /\ current[1].type = Drop(label, 2)
    THEN /\ current' = IF char_end > 0
                       THEN << [current[1] EXCEPT
                                  !.end = char_end,
                                  !.text = Slice(tok_text, current[1].start, char_end)] >>
                       ELSE current
         /\ UNCHANGED ner_entities
    ELSE /\ ner_entities' = ner_entities \o current
         /\ current' = <<>>

\* Mutant: a begin-label drops the open span instead of emitting it.
DecodeToken_BeginDrops(label, char_start, char_end) ==
    IF StartsWith(label, <<"B", "-">>)
    THEN /\ UNCHANGED ner_entities
         /\ current' = << [type |-> Drop(label, 2),
                            start |-> char_start,
                            end |-> char_end,
                            text |-> IF char_start >= 0
                                     THEN Slice(tok_text, char_start, char_end)
                                     ELSE <<>>] >>
    ELSE IF StartsWith(label, <<"I", "-">>) /\ current # <<>>
    THEN /\ current' = IF char_end > 0
                       THEN << [current[1] EXCEPT
                                  !.end = char_end,
                                  !.text = Slice(tok_text, current[1].start, char_end)] >>
                       ELSE current
         /\ UNCHANGED ner_entities
    ELSE /\ ner_entities' = ner_entities \o current
         /\ current' = <<>>

\* Lines 106-118: the label of an attended token is decoded.
DecodeToken(label, char_start, char_end) ==
    IF StartsWith(label, <<"B", "-">>)
    THEN /\ ner_entities' = ner_entities \o current
         /\ current' = << [type |-> Drop(label, 2),
                            start |-> char_start,
                            end |-> char_end,
                            text |-> IF char_start >= 0
                                     THEN Slice(tok_text, char_start, char_end)
                                     ELSE <<>>] >>
    ELSE IF StartsWith(label, <<"I", "-">>) /\ current # <<>>
    THEN /\ current' = IF char_end > 0
                       THEN << [current[1] EXCEPT
                                  !.end = char_end,
                                  !.text = Slice(tok_text, current[1].start, char_end)] >>
                       ELSE current
         /\ UNCHANGED ner_entities
    ELSE /\ ner_entities' = ner_entities \o current
         /\ current' = <<>>

\* Lines 100-118: one iteration of the loop over the predictions, at the
\* position behind those read so far; an attention of 0 leaves the loop.
Decode(pred) ==
    /\ dpc = "loop"
    /\ Len(predictions) < Len(attention_mask)
    /\ predictions' = Append(predictions, pred)
    /\ LET k == Len(predictions) + 1
       IN IF attention_mask[k] = 0
          THEN /\ dpc' = "flush"
               /\ UNCHANGED <<current, ner_entities>>
          ELSE /\ dpc' = "loop"
               /\ DecodeToken(Get(ID2LABEL, pred, <<"O">>),
                              token_to_char[k][1], token_to_char[k][2])

\* Lines 119-122: behind the loop a span that is still open is emitted.
DecFlush ==
    /\ dpc = "flush" \/ (dpc = "loop" /\ Len(predictions) = Len(attention_mask))
    /\ ner_entities' = ner_entities \o current
    /\ dpc' = "done"
    /\ UNCHANGED <<predictions, current>>

\* -------------------------------------------------------------- recognizers
\* The recognizers of CurrentEngine that detect runs on a text, a sequence of
\* one-character strings.  Positions count from 0 as in Python.
UpperLetters == {"A", "B", "J", "P", "R", "S", "T"}
LowerLetters == {"a", "b", "g", "i", "j", "n", "o", "p", "r", "s", "t"}
\* \w of the regular expressions: the texts hold no digit and no underscore.
IsWordChar(c) == c \in UpperLetters \cup LowerLetters
\* \b at position p of t.
AtBoundary(t, p) ==
    (p > 0 /\ IsWordChar(t[p])) # (p < Len(t) /\ IsWordChar(t[p + 1]))
\* The end of the longest run of whitespace (\s), of letters of either case,
\* and of lower-case letters ([a-z]) that starts at position p.
RECURSIVE SpacesEnd(_, _)
SpacesEnd(t, p) == IF p < Len(t) /\ IsSpace(t[p + 1]) THEN SpacesEnd(t, p + 1) ELSE p
RECURSIVE LettersEnd(_, _)
LettersEnd(t, p) == IF p < Len(t) /\ IsWordChar(t[p + 1]) THEN LettersEnd(t, p + 1) ELSE p
RECURSIVE LowersEnd(_, _)
LowersEnd(t, p) ==
    IF p < Len(t) /\ t[p + 1] \in LowerLetters THEN LowersEnd(t, p + 1) ELSE p

\* relationship_words and common_words, as far as the texts can spell them.
relationship_words == {<<"s", "o", "n">>}
common_words == {<<"s", "o", "n">>}

\* [A-Z][a-z]+ under re.IGNORECASE at position p: a letter of either case and
\* one or more letters of either case; the end of the match, or -1.
NameWordEnd(t, p) ==
    IF p < Len(t) /\ IsWordChar(t[p + 1]) /\ LettersEnd(t, p + 1) > p + 1
    THEN LettersEnd(t, p + 1) ELSE -1

\* Line 235 matched at position p with re.IGNORECASE: \b, the relationship
\* word in either case, \s+, and group 1, a name word with an optional second
\* one behind whitespace.  The span of group 1, or <<>> for no match.
RelationshipMatchAt(t, p, relationship) ==
    LET q == p + Len(relationship)
        name_start == SpacesEnd(t, q)
        first_end == NameWordEnd(t, name_start)
        second_start == SpacesEnd(t, first_end)
        second_end == IF second_start > first_end
                      THEN NameWordEnd(t, second_start) ELSE -1
    IN IF /\ AtBoundary(t, p)
          /\ q <= Len(t)
          /\ Lower(SubSeq(t, p + 1, q)) = relationship
          /\ name_start > q
          /\ first_end >= 0
       THEN <<name_start, IF second_end >= 0 THEN second_end ELSE first_end>>
       ELSE <<>>

\* re.finditer from position p on: the group-1 spans of the matches, leftmost
\* first, each search going on where the previous match ended.
RECURSIVE RelationshipFindIter(_, _, _)
RelationshipFindIter(t, p, relationship) ==
    IF p > Len(t) THEN <<>>
    ELSE IF RelationshipMatchAt(t, p, relationship) = <<>>
    THEN RelationshipFindIter(t, p + 1, relationship)
    ELSE <<RelationshipMatchAt(t, p, relationship)>>
             \o RelationshipFindIter(t, RelationshipMatchAt(t, p, relationship)[2],
                                     relationship)

\* A DetectedEntity of a recognizer for text[s:e].
Detected(t, r, s, e) ==
    [text |-> SubSeq(t, s + 1, e), entity_type |-> r.entity_type, start |-> s,
     end |-> e, confidence |-> r.confidence, source |-> r.source]

\* _relationship_names, lines 229-251, for the one relationship word: the
\* names whose lower-case form is no common word.
RelationshipNames(t) ==
    LET relationship == CHOOSE w \in relationship_words : TRUE
        found == RelationshipFindIter(t, 0, relationship)
        kept == SelectSeq(found, LAMBDA m : Lower(SubSeq(t, m[1] + 1, m[2])) \notin common_words)
    IN [k \in 1..Len(kept) |-> Detected(t, Relationship, kept[k][1], kept[k][2])]

\* maori_first_names with maori_last_names, and maori_false_positives, as far
\* as the texts can spell them; no entry of the latter matches maori_pattern.
maori_names == {<<"R", "a", "n", "g", "i">>, <<"P", "i", "t", "a">>}
maori_false_positives == {<<"T", "h", "i", "n", "g">>}
MaoriPhonetic ==
    [entity_type |-> "PERSON_OTHER", confidence |-> 60, source |-> "current_maori_phonetic"]

\* str.find and re.search of a literal: the first position from p on where w
\* occurs in t, or -1.
Find(t, w, p) ==
    LET at == {q \in p..(Len(t) - Len(w)) : SubSeq(t, q + 1, q + Len(w)) = w}
    IN IF at = {} THEN -1 ELSE CHOOSE q \in at : \A r \in at : q <= r

\* word.strip(".,;:!?\"'()"): of these the texts hold the full stop.
StripChars == {"."}
RECURSIVE Strip(_)
Strip(w) ==
    IF w # <<>> /\ Head(w) \in StripChars THEN Strip(Tail(w))
    ELSE IF w # <<>> /\ w[Len(w)] \in StripChars THEN Strip(SubSeq(w, 1, Len(w) - 1))
    ELSE w

\* text.split(): the words between runs of whitespace.
Split(t) == [k \in 1..Len(SplitWords(t, 0)) |-> SplitWords(t, 0)[k][1]]

\* Lines 186-205: the dictionary pass over the words ws left, current_pos
\* being where the search for the next word starts.
RECURSIVE DictionaryPass(_, _, _)
DictionaryPass(t, ws, current_pos) ==
    IF ws = <<>> THEN <<>>
    ELSE LET word == Head(ws)
             clean_word == Strip(word)
             match == Find(Slice(t, current_pos, Len(t)), clean_word, 0)
             found == IF clean_word \in maori_names /\ match >= 0
                      THEN <<Detected(t, MaoriDict, current_pos + match,
                                      current_pos + match + Len(clean_word))>>
                      ELSE <<>>
         IN found \o DictionaryPass(t, Tail(ws), Find(t, word, current_pos) + Len(word))

\* Line 208 at position p, the first alternative before the second:
\*   \b[A-Z][a-z]*(?:wh|ng)[a-z]+      an upper-case letter and lower-case
\*       letters that hold wh or ng with a lower-case letter behind it;
\*   \b[A-Z][aeiouAEIOU]{2,}[a-z]*\b   an upper-case letter, two or more
\*       vowels, lower-case letters, and a word boundary.
\* The end of the match, or -1.
Vowels == {"a", "i", "o", "A"}
RECURSIVE VowelsEnd(_, _)
VowelsEnd(t, p) == IF p < Len(t) /\ t[p + 1] \in Vowels THEN VowelsEnd(t, p + 1) ELSE p
PhoneticMatchAt(t, p) ==
    IF ~(AtBoundary(t, p) /\ p < Len(t) /\ t[p + 1] \in UpperLetters) THEN -1
    ELSE LET run_end == LowersEnd(t, p + 1)
             digraph == \E k \in (p + 1)..(run_end - 3) :
                            <<t[k + 1], t[k + 2]>> \in {<<"w", "h">>, <<"n", "g">>}
             vowel_ends == {x \in (p + 3)..VowelsEnd(t, p + 1) :
                                AtBoundary(t, LowersEnd(t, x))}
         IN IF digraph THEN run_end
            ELSE IF vowel_ends # {}
            THEN LowersEnd(t, CHOOSE x \in vowel_ends : \A y \in vowel_ends : y <= x)
            ELSE -1

\* re.finditer(maori_pattern, text) from position p on: the spans matched.
RECURSIVE PhoneticFindIter(_, _)
PhoneticFindIter(t, p) ==
    IF p > Len(t) THEN <<>>
    ELSE IF PhoneticMatchAt(t, p) < 0 THEN PhoneticFindIter(t, p + 1)
    ELSE << <<p, PhoneticMatchAt(t, p)>> >> \o PhoneticFindIter(t, PhoneticMatchAt(t, p))

\* Lines 211-216: a phonetic match is skipped when it is a false positive or
\* a name of the dictionary.
PhoneticSkipped(w) == w \in maori_false_positives \/ w \in maori_names

\* Lines 207-225: the phonetic pass.
PhoneticPass(t) ==
    LET kept == SelectSeq(PhoneticFindIter(t, 0),
                          LAMBDA m : ~PhoneticSkipped(SubSeq(t, m[1] + 1, m[2])))
    IN [k \in 1..Len(kept) |-> Detected(t, MaoriPhonetic, kept[k][1], kept[k][2])]

\* _maori_names, lines 181-227.
MaoriNames(t) == DictionaryPass(t, Split(t), 0) \o PhoneticPass(t)

\* ------------------------------------------------------------------ detect
\* The texts of a detection pass: up to MaxWords words with one separator
\* between neighbours.
MaxWords == 3
Words == {<<"s", "o", "n">>, <<"S", "o", "n">>, <<"J", "o">>, <<"j", "o">>,
          <<"R", "a", "n", "g", "i">>, <<"T", "a", "n", "g", "i">>}
Separators == {<<" ">>, <<"-">>}
RECURSIVE TextsOf(_)
TextsOf(n) ==
    IF n = 0 THEN {<<>>}
    ELSE IF n = 1 THEN Words
    ELSE {t \o s \o w : t \in TextsOf(n - 1), s \in Separators, w \in Words}
DetTexts == UNION {TextsOf(n) : n \in 0..MaxWords}

\* What doc.ents of the spaCy model can hold for text t: nothing, or one
\* PERSON entity on one of the words of t.
Spacy == [entity_type |-> "PERSON_OTHER", confidence |-> 70, source |-> "current_spacy"]
DocEnts(t) ==
    {<<>>} \cup {<<Detected(t, Spacy, w[2], w[3])>> : w \in {SplitWords(t, 0)[k] : k \in 1..Len(SplitWords(t, 0))}}

\* _nz_phones, _nz_medical_ids, _nz_addresses and _dates, lines 253-366: every
\* pattern of theirs needs a digit, a month name or a place word, none of which
\* the texts spell.
NzPatterns(t) == <<>>

VARIABLES
    det_text,       \* text
    nlp,            \* self.nlp: "model", or "None" when spacy.load failed
    all_entities,   \* all_entities of detect
    det_pc,         \* the line detect is at, "raised" after an exception
    det_result      \* what run_engine returned

detVars == <<det_text, nlp, all_entities, det_pc, det_result>>

\* No detect call.
DetIdle ==
    /\ det_text = <<>>
    /\ nlp = "None"
    /\ all_entities = <<>>
    /\ det_pc = "done"
    /\ det_result = <<>>

\* Lines 46-50 and 116-118: an engine whose model loaded or did not, and a
\* detect call on a text.
DetInit ==
    /\ det_text \in DetTexts
    /\ nlp \in {"model", "None"}
    /\ all_entities = <<>>
    /\ det_pc = "spacy"
    /\ det_result = <<>>

\* Mutant: without a model the call of self.nlp raises.
SpacyNerNoModel_Raises ==
    /\ det_pc = "spacy"
    /\ nlp = "None"
    /\ det_pc' = "raised"
    /\ UNCHANGED <<det_text, nlp, all_entities, det_result>>

\* Lines 121 and 147-179 without a model: _spacy_ner returns [].
SpacyNerNoModel ==
    /\ det_pc = "spacy"
    /\ nlp = "None"
    /\ det_pc' = "maori"
    /\ UNCHANGED <<det_text, nlp, all_entities, det_result>>

\* Lines 121 and 147-179 with a model that returns: the entities that are no
\* common word join all_entities.
SpacyNer(ents) ==
    /\ det_pc = "spacy"
    /\ nlp = "model"
    /\ all_entities' = all_entities
           \o SelectSeq(ents, LAMBDA e : Lower(e.text) \notin common_words)
    /\ det_pc' = "maori"
    /\ UNCHANGED <<det_text, nlp, det_result>>

\* Line 153 raising: nothing in _spacy_ner or detect catches it.
SpacyNerRaises ==
    /\ det_pc = "spacy"
    /\ nlp = "model"
    /\ det_pc' = "raised"
    /\ UNCHANGED <<det_text, nlp, all_entities, det_result>>

\* Line 124.
MaoriNamesStep ==
    /\ det_pc = "maori"
    /\ all_entities' = all_entities \o MaoriNames(det_text)
    /\ det_pc' = "relationship"
    /\ UNCHANGED <<det_text, nlp, det_result>>

\* Line 127.
RelationshipNamesStep ==
    /\ det_pc = "relationship"
    /\ all_entities' = all_entities \o RelationshipNames(det_text)
    /\ det_pc' = "patterns"
    /\ UNCHANGED <<det_text, nlp, det_result>>

\* Lines 130-139.
NzPatternsStep ==
    /\ det_pc = "patterns"
    /\ all_entities' = all_entities \o NzPatterns(det_text)
    /\ det_pc' = "overlaps"
    /\ UNCHANGED <<det_text, nlp, det_result>>

\* Line 142.
RemoveOverlapsStep ==
    /\ det_pc = "overlaps"
    /\ all_entities' = RemoveOverlaps(all_entities).result
    /\ det_pc' = "deduplicate"
    /\ UNCHANGED <<det_text, nlp, det_result>>

\* Line 143.
DeduplicateStep ==
    /\ det_pc = "deduplicate"
    /\ all_entities' = Deduplicate(all_entities)
    /\ det_pc' = "return"
    /\ UNCHANGED <<det_text, nlp, det_result>>

\* Line 145, and run_engine lines 35-46: the entities detect returned.
RunEngineReturns ==
    /\ det_pc = "return"
    /\ det_result' = all_entities
    /\ det_pc' = "done"
    /\ UNCHANGED <<det_text, nlp, all_entities>>

\* run_engine lines 47-49: an exception of detect makes the result [].
RunEngineExcept ==
    /\ det_pc = "raised"
    /\ det_result' = <<>>
    /\ det_pc' = "done"
    /\ UNCHANGED <<det_text, nlp, all_entities>>

\* ------------------------------------------------------------ key rotation
\* lambda_handler of lambda-proxy/rotate_api_key.py.  Invocations run side by
\* side on one API Gateway and one secret.  A key id is a positive number; 0
\* stands for None.
MaxRotations == 2
Rotations == 1..MaxRotations

VARIABLES
    api_keys,       \* the ids of the API Gateway keys that exist
    plan_keys,      \* the ids of the keys associated with the usage plan
    secret_key_id,  \* key_id in the secret
    last_key_id,    \* the last id API Gateway has given to a key
    rot_pc,         \* the step each invocation is at; "failed" is the 500 return
    old_key_id,     \* old_key_id of each invocation
    new_key_id      \* new_key_id of each invocation

rotVars == <<api_keys, plan_keys, secret_key_id, last_key_id, rot_pc, old_key_id, new_key_id>>
vars == <<consVars, tokVars, simVars, decVars, detVars, rotVars>>

\* No invocation.
RotIdle ==
    /\ api_keys = {}
    /\ plan_keys = {}
    /\ secret_key_id = 0
    /\ last_key_id = 0
    /\ rot_pc = [p \in Rotations |-> "done"]
    /\ old_key_id = [p \in Rotations |-> 0]
    /\ new_key_id = [p \in Rotations |-> 0]

\* The secret names key 1, which exists and is in the usage plan; every
\* invocation is about to start.
RotInit ==
    /\ api_keys = {1}
    /\ plan_keys = {1}
    /\ secret_key_id = 1
    /\ last_key_id = 1
    /\ rot_pc = [p \in Rotations |-> "get_current"]
    /\ old_key_id = [p \in Rotations |-> 0]
    /\ new_key_id = [p \in Rotations |-> 0]

\* Step 1, get_current_key_id, lines 106-116: key_id of the secret, or None
\* when reading the secret fails.
GetCurrentKeyId(p) ==
    /\ rot_pc[p] = "get_current"
    /\ \E read \in {secret_key_id, 0} : old_key_id' = [old_key_id EXCEPT ![p] = read]
    /\ rot_pc' = [rot_pc EXCEPT ![p] = "get_plan"]
    /\ UNCHANGED <<api_keys, plan_keys, secret_key_id, last_key_id, new_key_id>>

\* Step 2, lines 40-43 and 119-129: without a usage plan id the rotation fails.
GetUsagePlanId(p) ==
    /\ rot_pc[p] = "get_plan"
    /\ \E found \in BOOLEAN :
           rot_pc' = [rot_pc EXCEPT ![p] = IF found THEN "create_key" ELSE "failed"]
    /\ UNCHANGED <<api_keys, plan_keys, secret_key_id, last_key_id, old_key_id, new_key_id>>

\* Step 3, lines 46-56: API Gateway makes a key with an id of its own, or the
\* call raises, with the key made or not.
CreateApiKey(p) ==
    /\ rot_pc[p] = "create_key"
    /\ \/ /\ last_key_id' = last_key_id + 1
          /\ api_keys' = api_keys \cup {last_key_id + 1}
          /\ new_key_id' = [new_key_id EXCEPT ![p] = last_key_id + 1]
          /\ rot_pc' = [rot_pc EXCEPT ![p] = "associate"]
       \/ /\ last_key_id' = last_key_id + 1
          /\ api_keys' = api_keys \cup {last_key_id + 1}
          /\ rot_pc' = [rot_pc EXCEPT ![p] = "failed"]
          /\ UNCHANGED new_key_id
       \/ /\ rot_pc' = [rot_pc EXCEPT ![p] = "failed"]
          /\ UNCHANGED <<api_keys, last_key_id, new_key_id>>
    /\ UNCHANGED <<plan_keys, secret_key_id, old_key_id>>

\* Step 4, lines 59-64: the new key joins the usage plan, or the call raises
\* (as it does for a key that does not exist), with the key joined or not.
CreateUsagePlanKey(p) ==
    /\ rot_pc[p] = "associate"
    /\ \/ /\ new_key_id[p] \in api_keys
          /\ plan_keys' = plan_keys \cup {new_key_id[p]}
          /\ rot_pc' = [rot_pc EXCEPT ![p] = "update_secret"]
       \/ /\ new_key_id[p] \in api_keys
          /\ plan_keys' = plan_keys \cup {new_key_id[p]}
          /\ rot_pc' = [rot_pc EXCEPT ![p] = "failed"]
       \/ /\ rot_pc' = [rot_pc EXCEPT ![p] = "failed"]
          /\ UNCHANGED plan_keys
    /\ UNCHANGED <<api_keys, secret_key_id, last_key_id, old_key_id, new_key_id>>

\* Mutant: a failure to write the secret is ignored.
UpdateSecret_ErrorIgnored(p) ==
    /\ rot_pc[p] = "update_secret"
    /\ \/ secret_key_id' = new_key_id[p]
       \/ UNCHANGED secret_key_id
    /\ rot_pc' = [rot_pc EXCEPT ![p] = "delete_old"]
    /\ UNCHANGED <<api_keys, plan_keys, last_key_id, old_key_id, new_key_id>>

\* Step 5, update_secret, lines 67 and 132-151: the secret gets the new key, or
\* the call raises, with the secret written or not.
UpdateSecret(p) ==
    /\ rot_pc[p] = "update_secret"
    /\ \/ /\ secret_key_id' = new_key_id[p]
          /\ rot_pc' = [rot_pc EXCEPT ![p] = "delete_old"]
       \/ /\ secret_key_id' = new_key_id[p]
          /\ rot_pc' = [rot_pc EXCEPT ![p] = "failed"]
       \/ /\ rot_pc' = [rot_pc EXCEPT ![p] = "failed"]
          /\ UNCHANGED secret_key_id
    /\ UNCHANGED <<api_keys, plan_keys, last_key_id, old_key_id, new_key_id>>

\* Steps 6 and 7, lines 70-82: an old key that is not None and not the new key
\* is deleted, which takes it out of the usage plan; a key that is gone and
\* any other failure are logged.  The rotation returns 200.
DeleteOldKey(p) ==
    /\ rot_pc[p] = "delete_old"
    /\ \/ /\ old_key_id[p] # 0
          /\ old_key_id[p] # new_key_id[p]
          /\ old_key_id[p] \in api_keys
          /\ api_keys' = api_keys \ {old_key_id[p]}
          /\ plan_keys' = plan_keys \ {old_key_id[p]}
       \/ UNCHANGED <<api_keys, plan_keys>>
    /\ rot_pc' = [rot_pc EXCEPT ![p] = "done"]
    /\ UNCHANGED <<secret_key_id, last_key_id, old_key_id, new_key_id>>

\* ---------------------------------------------------------- specifications
\* A detection pass; no tokenizer is running.
Init == ConsInit /\ TokStart(<<>>, <<>>) /\ SimpleIdle /\ DecIdle /\ DetIdle /\ RotIdle
Next ==
    \/ \E e \in Candidates : Extend(e) /\ UNCHANGED <<tokVars, simVars, decVars, detVars, rotVars>>
    \/ Consolidate /\ UNCHANGED <<tokVars, simVars, decVars, detVars, rotVars>>
    \/ Reconsolidate /\ UNCHANGED <<tokVars, simVars, decVars, detVars, rotVars>>
    \/ ConsolidateReturned /\ UNCHANGED <<tokVars, simVars, decVars, detVars, rotVars>>
Spec == Init /\ [][Next]_vars

\* A tokenize call; no detection pass is running.
TokSpecInit == TokInit /\ SimpleIdle /\ ConsInit /\ DecIdle /\ DetIdle /\ RotIdle
TokSpecNext ==
    \/ SkipSpace /\ UNCHANGED <<consVars, simVars, decVars, detVars, rotVars>>
    \/ BeginWord /\ UNCHANGED <<consVars, simVars, decVars, detVars, rotVars>>
    \/ MatchToken /\ UNCHANGED <<consVars, simVars, decVars, detVars, rotVars>>
    \/ FallbackToken /\ UNCHANGED <<consVars, simVars, decVars, detVars, rotVars>>
    \/ Finish /\ UNCHANGED <<consVars, simVars, decVars, detVars, rotVars>>
TokSpec == TokSpecInit /\ [][TokSpecNext]_vars

\* A call of either tokenizer; no detection pass is running.
TokenizersInit == ((TokInit /\ SimpleIdle) \/ SimpleInit) /\ ConsInit /\ DecIdle /\ DetIdle /\ RotIdle
TokenizersNext ==
    \/ tok_fn = "tokenize" /\ SkipSpace /\ UNCHANGED <<consVars, simVars, decVars, detVars, rotVars>>
    \/ tok_fn = "tokenize" /\ BeginWord /\ UNCHANGED <<consVars, simVars, decVars, detVars, rotVars>>
    \/ tok_fn = "tokenize" /\ MatchToken /\ UNCHANGED <<consVars, simVars, decVars, detVars, rotVars>>
    \/ tok_fn = "tokenize" /\ FallbackToken /\ UNCHANGED <<consVars, simVars, decVars, detVars, rotVars>>
    \/ tok_fn = "tokenize" /\ Finish /\ UNCHANGED <<consVars, simVars, decVars, detVars, rotVars>>
    \/ SimpleBeginWord /\ UNCHANGED <<consVars, decVars, detVars, rotVars>>
    \/ SimpleMatchToken /\ UNCHANGED <<consVars, decVars, detVars, rotVars>>
    \/ SimpleFallbackToken /\ UNCHANGED <<consVars, decVars, detVars, rotVars>>
    \/ SimpleFinish /\ UNCHANGED <<consVars, decVars, detVars, rotVars>>
TokenizersSpec == TokenizersInit /\ [][TokenizersNext]_vars

\* Either tokenizer is straight-line code: a call that can take a step takes it.
TokenizersFairSpec == TokenizersSpec /\ WF_vars(TokenizersNext)

\* A run_ner call on a text; no detection pass is running.
NerInit == (\E t \in Texts : TokStart(t, NerVocab)) /\ SimpleIdle /\ ConsInit /\ DecIdle /\ DetIdle /\ RotIdle
NerNext ==
    \/ SkipSpace /\ UNCHANGED <<consVars, simVars, decVars, detVars, rotVars>>
    \/ BeginWord /\ UNCHANGED <<consVars, simVars, decVars, detVars, rotVars>>
    \/ MatchToken /\ UNCHANGED <<consVars, simVars, decVars, detVars, rotVars>>
    \/ FallbackToken /\ UNCHANGED <<consVars, simVars, decVars, detVars, rotVars>>
    \/ Finish /\ UNCHANGED <<consVars, simVars, decVars, detVars, rotVars>>
    \/ DecStart /\ UNCHANGED <<consVars, tokVars, simVars, detVars, rotVars>>
    \/ \E pred \in Preds : Decode(pred) /\ UNCHANGED <<consVars, tokVars, simVars, detVars, rotVars>>
    \/ DecFlush /\ UNCHANGED <<consVars, tokVars, simVars, detVars, rotVars>>
NerSpec == NerInit /\ [][NerNext]_vars

\* A detect call through run_engine; no tokenizer is running.
DetectInit == DetInit /\ ConsInit /\ TokStart(<<>>, <<>>) /\ SimpleIdle /\ DecIdle /\ RotIdle
DetectNext ==
    \/ SpacyNerNoModel /\ UNCHANGED <<consVars, tokVars, simVars, decVars, rotVars>>
    \/ \E ents \in DocEnts(det_text) : SpacyNer(ents) /\ UNCHANGED <<consVars, tokVars, simVars, decVars, rotVars>>
    \/ SpacyNerRaises /\ UNCHANGED <<consVars, tokVars, simVars, decVars, rotVars>>
    \/ MaoriNamesStep /\ UNCHANGED <<consVars, tokVars, simVars, decVars, rotVars>>
    \/ RelationshipNamesStep /\ UNCHANGED <<consVars, tokVars, simVars, decVars, rotVars>>
    \/ NzPatternsStep /\ UNCHANGED <<consVars, tokVars, simVars, decVars, rotVars>>
    \/ RemoveOverlapsStep /\ UNCHANGED <<consVars, tokVars, simVars, decVars, rotVars>>
    \/ DeduplicateStep /\ UNCHANGED <<consVars, tokVars, simVars, decVars, rotVars>>
    \/ RunEngineReturns /\ UNCHANGED <<consVars, tokVars, simVars, decVars, rotVars>>
    \/ RunEngineExcept /\ UNCHANGED <<consVars, tokVars, simVars, decVars, rotVars>>
DetectSpec == DetectInit /\ [][DetectNext]_vars

\* Invocations of the key rotation, one after another or overlapping; no
\* detection pass and no tokenizer is running.
RotationInit ==
    RotInit /\ ConsInit /\ TokStart(<<>>, <<>>) /\ SimpleIdle /\ DecIdle /\ DetIdle
RotationNext ==
    \/ \E p \in Rotations : GetCurrentKeyId(p) /\ UNCHANGED <<consVars, tokVars, simVars, decVars, detVars>>
    \/ \E p \in Rotations : GetUsagePlanId(p) /\ UNCHANGED <<consVars, tokVars, simVars, decVars, detVars>>
    \/ \E p \in Rotations : CreateApiKey(p) /\ UNCHANGED <<consVars, tokVars, simVars, decVars, detVars>>
    \/ \E p \in Rotations : CreateUsagePlanKey(p) /\ UNCHANGED <<consVars, tokVars, simVars, decVars, detVars>>
    \/ \E p \in Rotations : UpdateSecret(p) /\ UNCHANGED <<consVars, tokVars, simVars, decVars, detVars>>
    \/ \E p \in Rotations : DeleteOldKey(p) /\ UNCHANGED <<consVars, tokVars, simVars, decVars, detVars>>
RotationSpec == RotationInit /\ [][RotationNext]_vars

\* ------------------------------------------------- consolidator properties
\* A consolidator run has returned.
Returned == results # <<>>
\* The list the first run returned.
Result == results[1]
\* Spans a and b share a character, as the spec states it.
Disjoint(a, b) == a.end <= b.start \/ b.end <= a.start
\* The indices of list s.
Idx(s) == 1..Len(s)

\* C1: no two distinct elements of a list the consolidator returned overlap:
\* every pair satisfies a.end <= b.start or b.end <= a.start.
C1_NoOverlap ==
    \A n \in Idx(results) :
        \A i, j \in Idx(results[n]) :
            i # j => Disjoint(results[n][i], results[n][j])

\* C1 witness: overlapping candidates went in and two or more spans came out.
C1_Witness ==
    /\ Returned
    /\ Len(Result) >= 2
    /\ \E i, j \in Idx(handed) : i # j /\ ~Disjoint(handed[i], handed[j])

\* The dedup key as the spec states it: (lowercased text, start, end).
SpecKey(e) == <<Lower(e.text), e.start, e.end>>
\* The list the overlap stage of the first run returned.
Resolved == RemoveOverlaps(handed).result
\* The positions of list s that hold the first occurrence of their key.
FirstOfKey(s) == {k \in Idx(s) : \A m \in 1..(k - 1) : SpecKey(s[m]) # SpecKey(s[k])}
\* The elements of list s at the positions in K, in order.
RECURSIVE Keep(_, _, _)
Keep(s, K, k) ==
    IF k > Len(s) THEN <<>>
    ELSE (IF k \in K THEN <<s[k]>> ELSE <<>>) \o Keep(s, K, k + 1)

\* C2: no two elements of a returned list share the key (lowercased text,
\* start, end), and the result is the overlap-resolved list with exactly the
\* first occurrence of every key kept.
C2_NoDuplicateKey ==
    /\ \A n \in Idx(results) :
           \A i, j \in Idx(results[n]) :
               i # j => SpecKey(results[n][i]) # SpecKey(results[n][j])
    /\ Returned => Result = Keep(Resolved, FirstOfKey(Resolved), 1)

\* C2 witness: two candidates with one key went in, one element with that key
\* came out, beside a span of the same lowercased text elsewhere.
C2_Witness ==
    /\ Returned
    /\ \E i, j \in Idx(handed) :
           /\ i # j
           /\ SpecKey(handed[i]) = SpecKey(handed[j])
           /\ Cardinality({k \in Idx(Result) : SpecKey(Result[k]) = SpecKey(handed[i])}) = 1
    /\ \E i, j \in Idx(Result) :
           i # j /\ Lower(Result[i].text) = Lower(Result[j].text)

\* C3: a second run on the list object the first run was handed returns the
\* list the first run returned.
C3_SecondRunEqual ==
    Len(results) = 2 => results[2] = results[1]

\* The two-candidate case of C4 and C8: the list handed over holds exactly two
\* candidates that overlap and have equal confidence.
TiedPair ==
    /\ Returned
    /\ Len(handed) = 2
    /\ ~Disjoint(handed[1], handed[2])
    /\ handed[1].confidence = handed[2].confidence

LowUnderHighs(l) ==
    /\ Len(handed) >= 3
    /\ \A k \in Idx(handed) \ {l} :
           /\ handed[k].confidence > handed[l].confidence
           /\ ~Disjoint(handed[k], handed[l])
    /\ \A k, m \in Idx(handed) \ {l} : k # m => Disjoint(handed[k], handed[m])

\* C5: one lower-confidence span under two or more mutually non-overlapping
\* higher-confidence spans: the result is exactly the higher-confidence spans,
\* all of them, and the lower-confidence span is absent.
C5_HigherConfidenceKept ==
    Returned =>
        \A l \in Idx(handed) :
            LowUnderHighs(l) =>
                /\ Len(Result) = Len(handed) - 1
                /\ \A k \in Idx(handed) \ {l} : \E i \in Idx(Result) : Result[i] = handed[k]
                /\ \A i \in Idx(Result) : Result[i] # handed[l]

\* C5 witness: the lower-confidence span has the longest text and came first.
C5_Witness ==
    /\ Returned
    /\ LowUnderHighs(1)
    /\ \A k \in 2..Len(handed) : Len(handed[1].text) > Len(handed[k].text)
    /\ Len(Result) = 2

\* C6: every returned list is ordered by start position.
C6_OrderedByStart ==
    \A n \in Idx(results) :
        \A i \in 1..(Len(results[n]) - 1) :
            results[n][i].start <= results[n][i + 1].start

\* C6 witness: candidates handed over out of start order came out as two or
\* more spans.
C6_Witness ==
    /\ Returned
    /\ Len(Result) >= 2
    /\ \E i \in 1..(Len(handed) - 1) : handed[i].start > handed[i + 1].start

\* Candidate k of the list handed over overlaps no other candidate of it.
Isolated(k) == \A m \in Idx(handed) \ {k} : Disjoint(handed[k], handed[m])

\* C7: a candidate that overlaps no other candidate is in the result exactly
\* once, with all six fields unchanged.
C7_IsolatedRetained ==
    Returned =>
        \A k \in Idx(handed) :
            Isolated(k) => Cardinality({i \in Idx(Result) : Result[i] = handed[k]}) = 1

\* C7 witness: an isolated candidate was kept while another candidate was
\* dropped, and it touches a neighbour without overlapping it.
C7_Witness ==
    /\ Returned
    /\ Len(Result) < Len(handed)
    /\ \E k, m \in Idx(handed) :
           /\ Isolated(k)
           /\ handed[k].end = handed[m].start
           /\ \E i \in Idx(Result) : Result[i] = handed[k]

\* The candidate of a pair that a stable sort by (start ascending, end
\* descending) puts first.
FirstAfterSort(a, b) ==
    IF b.start < a.start \/ (b.start = a.start /\ b.end > a.end) THEN b ELSE a

Exchanged(i, j) ==
    [k \in Idx(handed) |-> IF k = i THEN handed[j] ELSE IF k = j THEN handed[i] ELSE handed[k]]
\* What a span's position in the document decides: its range, the text there,
\* and its confidence.
Placed(e) == [text |-> e.text, start |-> e.start, end |-> e.end, confidence |-> e.confidence]
PlacedAll(s) == [k \in Idx(s) |-> Placed(s[k])]

Attended == Cardinality({k \in Idx(attention_mask) : attention_mask[k] = 1})

\* C10: tokenize returns three lists of length MAX_LEN; position 0 is the
\* start token with range (-1,-1); tokenizing goes on only below MAX_LEN - 1
\* tokens and a budget stop leaves exactly MAX_LEN - 1; the attended positions
\* are a prefix whose last token is the separator with range (-1,-1), and
\* every later position is padding with attention 0 and range (-1,-1).
C10_FixedLengthSepLast ==
    /\ tpc \in {"scan", "word"} => Len(input_ids) < MAX_LEN - 1
    /\ tpc = "sep" => Len(input_ids) = MAX_LEN - 1
    /\ tpc = "done" =>
           /\ Len(input_ids) = MAX_LEN
           /\ Len(attention_mask) = MAX_LEN
           /\ Len(token_to_char) = MAX_LEN
           /\ input_ids[1] = CLS_ID
           /\ token_to_char[1] = <<-1, -1>>
           /\ Attended >= 2
           /\ \A k \in 1..Attended : attention_mask[k] = 1
           /\ input_ids[Attended] = SEP_ID
           /\ token_to_char[Attended] = <<-1, -1>>
           /\ \A k \in (Attended + 1)..MAX_LEN :
                  /\ input_ids[k] = PAD_ID
                  /\ attention_mask[k] = 0
                  /\ token_to_char[k] = <<-1, -1>>

\* C10 witness: the budget stopped tokenize in the middle of a word, and the
\* separator fills the last position.
C10_Witness ==
    /\ tpc = "done"
    /\ remaining # <<>>
    /\ Attended = MAX_LEN
    /\ input_ids[MAX_LEN] = SEP_ID

\* C11: simple_tokenize returns three lists of length max_length; at most
\* max_length - 1 tokens precede the separator, so the attended positions are
\* a prefix whose last token is the separator with range (-1,-1), and every
\* later position is padding with attention 0 and range (-1,-1), also when
\* one word alone gives max_length or more tokens.
C11_SimpleSepLast ==
    (tok_fn = "simple_tokenize" /\ tpc = "done") =>
        /\ Len(input_ids) = MAX_LEN
        /\ Len(attention_mask) = MAX_LEN
        /\ Len(token_to_char) = MAX_LEN
        /\ Attended >= 2
        /\ \A k \in 1..Attended : attention_mask[k] = 1
        /\ input_ids[Attended] = SEP_TOKEN_ID
        /\ token_to_char[Attended] = <<-1, -1>>
        /\ \A k \in (Attended + 1)..MAX_LEN :
               /\ input_ids[k] = PAD_TOKEN_ID
               /\ attention_mask[k] = 0
               /\ token_to_char[k] = <<-1, -1>>

\* The text without its whitespace characters.
NonSpace(t) == SelectSeq(t, LAMBDA c : ~IsSpace(c))
\* A token of the map that stands for characters of the text.
NonStructural(r) == r[1] >= 0
\* text[char_start:char_end] of every non-structural token of the map m, in
\* output order, joined.
RECURSIVE Covered(_, _)
Covered(t, m) ==
    IF m = <<>> THEN <<>>
    ELSE (IF NonStructural(Head(m)) THEN SubSeq(t, Head(m)[1] + 1, Head(m)[2])
          ELSE <<>>) \o Covered(t, Tail(m))
\* The call has returned and the budget cut nothing: no word was left
\* unfinished or untaken, and the separator is in the returned lists.
Uncut ==
    /\ tpc = "done"
    /\ remaining = <<>>
    /\ tok_fn = "tokenize" => \A k \in (tok_i + 1)..Len(tok_text) : IsSpace(tok_text[k])
    /\ tok_fn = "simple_tokenize" => words = <<>>
    /\ Attended >= 2
    /\ input_ids[Attended] = SEP_ID
    /\ token_to_char[Attended] = <<-1, -1>>

\* C12: when the budget cut nothing, the slices text[char_start:char_end] of
\* the non-structural tokens, joined in output order, are the text without
\* its whitespace, for every vocabulary, the bare marker piece included.
C12_CoversNonSpace ==
    Uncut => Covered(tok_text, token_to_char) = NonSpace(tok_text)

\* C13: at every point of a tokenization, each non-structural token of the
\* map has char_start <= char_end and starts at or behind the end of every
\* non-structural token before it, so no character index lies in the ranges
\* of two tokens.
C13_RangesMonotonic ==
    /\ \A k \in Idx(token_to_char) :
           NonStructural(token_to_char[k]) =>
               /\ token_to_char[k][1] <= token_to_char[k][2]
               /\ \A h \in 1..(k - 1) :
                      NonStructural(token_to_char[h]) =>
                          token_to_char[h][2] <= token_to_char[k][1]
    /\ \A c \in 0..MaxText :
           Cardinality({k \in Idx(token_to_char) :
                           /\ token_to_char[k][1] <= c
                           /\ c < token_to_char[k][2]}) <= 1

\* C13 witness: a returned map with three non-structural tokens, two of them
\* in one word and the third behind a whitespace character.
C13_Witness ==
    /\ tpc = "done"
    /\ \E k \in Idx(token_to_char) :
           /\ k + 2 <= Len(token_to_char)
           /\ NonStructural(token_to_char[k])
           /\ NonStructural(token_to_char[k + 2])
           /\ token_to_char[k][2] = token_to_char[k + 1][1]
           /\ token_to_char[k + 1][2] < token_to_char[k + 2][1]

\* What the scan has yet to pass: the text behind i in tokenize, the words
\* not yet taken in simple_tokenize.
ScanLeft == IF tok_fn = "tokenize" THEN Len(tok_text) - tok_i ELSE Len(words)
\* A step of a tokenizer: an iteration of the loop over a word leaves a
\* strictly shorter (possibly empty) remaining suffix; the scan never goes
\* back, and it has advanced whenever an iteration of the outer loop ends
\* (a whitespace character passed, or a word left) or the next word is taken
\* from the word list.
Progress ==
    /\ tpc = "word" => Len(remaining') < Len(remaining)
    /\ ScanLeft' <= ScanLeft
    /\ (tpc = "scan" /\ tpc' = "scan") => ScanLeft' < ScanLeft
    /\ (tpc = "scan" /\ tpc' = "word") =>
           IF tok_fn = "tokenize" THEN tok_j' > tok_i ELSE ScanLeft' < ScanLeft
    /\ (tok_fn = "tokenize" /\ tpc = "word" /\ tpc' # "word") => ScanLeft' < ScanLeft

\* C14: the tokenizer terminates for every text and vocabulary; every
\* iteration of the loop over a word strictly shortens or empties the
\* remaining suffix, and the scan over the text strictly advances.
C14_Terminates == [][Progress]_vars /\ <>(tpc = "done")

\* C14 witness: a call has returned after a word whose first token was the
\* bare marker (which emptied the suffix) and a word of two or more tokens.
C14_Witness ==
    /\ tpc = "done"
    /\ \E k \in Idx(token_to_char) :
           /\ NonStructural(token_to_char[k])
           /\ token_to_char[k][1] = token_to_char[k][2]
    /\ \E k \in Idx(token_to_char) :
           /\ k < Len(token_to_char)
           /\ NonStructural(token_to_char[k])
           /\ token_to_char[k][1] < token_to_char[k][2]
           /\ token_to_char[k + 1][1] = token_to_char[k][2]

\* The step about to be taken emits a token by a vocabulary match: some
\* prefix of the (marker-prefixed, on a first subword) suffix is a piece.
MatchStep ==
    /\ tpc = "word"
    /\ \E n \in 1..Len(Prefixed) : SubSeq(Prefixed, 1, n) \in DOMAIN vocab
\* The id and the range of the token a step has appended.
NewId == input_ids'[Len(input_ids')]
NewRange == token_to_char'[Len(token_to_char')]
\* The piece with the given id (ids are unique within a vocabulary).
PieceOf(id) == CHOOSE p \in DOMAIN vocab : vocab[p] = id
\* A piece without its leading marker, if it has one.
Unmarked(p) == IF p # <<>> /\ Head(p) = prefix THEN Tail(p) ELSE p

\* C15: the piece of the id of a token emitted by a vocabulary match, without
\* its leading marker when the token is the first subword of a word, is
\* text[char_start:char_end] of the token.
C15_PieceIsSlice ==
    [][MatchStep =>
          /\ \E p \in DOMAIN vocab : vocab[p] = NewId
          /\ NonStructural(NewRange)
          /\ (IF is_first THEN Unmarked(PieceOf(NewId)) ELSE PieceOf(NewId))
                 = SubSeq(tok_text, NewRange[1] + 1, NewRange[2])]_vars

\* C15 witness: a word was split into the first subword "_ab" over two
\* characters and the later subword "b" over the next one.
C15_Witness ==
    /\ tpc = "done"
    /\ \E k \in Idx(input_ids) :
           /\ k < Len(input_ids)
           /\ input_ids[k] = PieceId(<<"_", "a", "b">>)
           /\ token_to_char[k][2] = token_to_char[k][1] + 2
           /\ input_ids[k + 1] = PieceId(<<"b">>)
           /\ token_to_char[k + 1] = <<token_to_char[k][2], token_to_char[k][2] + 1>>

\* The step about to be taken finds no prefix of the (marker-prefixed, on a
\* first subword) suffix in the vocabulary.
FallbackStep ==
    /\ tpc = "word"
    /\ \A n \in 1..Len(Prefixed) : SubSeq(Prefixed, 1, n) \notin DOMAIN vocab
\* The unknown-token id of the running function.
Unknown == IF tok_fn = "tokenize" THEN UnkId(vocab) ELSE SimpleUnkId(vocab)
\* The single character at the head of the suffix, boundary-marked on the
\* first subword of a word, and the same character bare.
MarkedChar == IF is_first THEN <<prefix, remaining[1]>> ELSE <<remaining[1]>>
BareChar == <<remaining[1]>>
\* A fallback step appends one token with range (offset, offset + 1) and
\* consumes exactly one character.
ConsumesOne ==
    /\ Len(input_ids') = Len(input_ids) + 1
    /\ Len(token_to_char') = Len(token_to_char) + 1
    /\ NewRange = <<offset, offset + 1>>
    /\ remaining' = Tail(remaining)
    /\ offset' = offset + 1

MatchedSuffix == IF is_first THEN <<prefix>> \o remaining ELSE remaining

\* C17: a token emitted by a vocabulary match is the longest prefix of the
\* remaining suffix of the word that is a piece of the vocabulary, the suffix
\* taken with the marker in front on a first subword and without it later.
C17_LongestPrefix ==
    [][MatchStep =>
          \E n \in 1..Len(MatchedSuffix) :
              /\ SubSeq(MatchedSuffix, 1, n) \in DOMAIN vocab
              /\ NewId = vocab[SubSeq(MatchedSuffix, 1, n)]
              /\ \A m \in (n + 1)..Len(MatchedSuffix) :
                     SubSeq(MatchedSuffix, 1, m) \notin DOMAIN vocab]_vars

\* C17 witness: with "_", "_a" and "_ab" all in the vocabulary, the first
\* token of a text that starts with "ab" is "_ab"; and with "a" in it, a later
\* subword "a" was matched.
C17_Witness ==
    /\ tpc = "done"
    /\ {<<"_">>, <<"_", "a">>, <<"_", "a", "b">>, <<"a">>} \subseteq DOMAIN vocab
    /\ input_ids[2] = PieceId(<<"_", "a", "b">>)
    /\ token_to_char[2] = <<0, 2>>
    /\ input_ids[3] = PieceId(<<"a">>)
    /\ token_to_char[3] = <<2, 3>>

\* ------------------------------------------------------- decoder properties
\* The label of the prediction read at position k (counted from 1).
LabelAt(k) == Get(ID2LABEL, predictions[k], <<"O">>)
IsBegin(label) == StartsWith(label, <<"B", "-">>)
IsInside(label) == StartsWith(label, <<"I", "-">>)
\* The positions read so far that are attended and carry a begin-label, in
\* position order.
Begins ==
    SelectSeq([k \in Idx(predictions) |-> k],
              LAMBDA k : attention_mask[k] = 1 /\ IsBegin(LabelAt(k)))
\* The position of the n-th attended begin-label read.
NthBegin(n) == Begins[n]
\* The spans opened so far, in the order they were opened: those emitted and,
\* until the last one is emitted behind the loop, the open one.
Opened == IF dpc = "done" THEN ner_entities ELSE ner_entities \o current

\* C18: every attended begin-label yields exactly one emitted span.  While the
\* loop runs the spans emitted plus the open one are the attended
\* begin-labels read, in begin order; right behind an attended begin-label a
\* span is open, and right behind an attended outside-label none is; the
\* label at an attention-0 position opens and emits nothing; when the decoder
\* is done every attended position was read and the emitted spans are the
\* attended begin-labels, one each, in begin order.
C18_OneSpanPerBegin ==
    dpc \in {"loop", "flush", "done"} =>
        /\ LET begun == Begins
           IN /\ Len(Opened) = Len(begun)
              /\ \A n \in Idx(Opened) :
                     /\ Opened[n].type = Drop(LabelAt(begun[n]), 2)
                     /\ Opened[n].start = token_to_char[begun[n]][1]
        /\ (dpc = "loop" /\ predictions # <<>>) =>
               /\ IsBegin(LabelAt(Len(predictions))) => current # <<>>
               /\ LabelAt(Len(predictions)) = <<"O">> => current = <<>>
        /\ dpc = "done" =>
               \A k \in Idx(attention_mask) :
                   attention_mask[k] = 1 => k <= Len(predictions)

\* C18 witness: the labels O, B-PER, I-PER, O, B-LOC on five attended tokens
\* were decoded into exactly two spans, a PER span and then a LOC span.
C18_Witness ==
    /\ dpc = "done"
    /\ predictions = <<0, 3, 4, 0, 7>>
    /\ \A k \in Idx(predictions) : attention_mask[k] = 1
    /\ Len(ner_entities) = 2
    /\ ner_entities[1].type = <<"P", "E", "R">>
    /\ ner_entities[1].start < ner_entities[1].end
    /\ ner_entities[2].type = <<"L", "O", "C">>

\* The step about to be taken decodes an attended token; ReadLabel is its
\* label and ReadRange its range.
ReadsToken ==
    /\ dpc = "loop"
    /\ Len(predictions') = Len(predictions) + 1
    /\ attention_mask[Len(predictions')] = 1
ReadLabel == Get(ID2LABEL, predictions'[Len(predictions')], <<"O">>)
ReadRange == token_to_char[Len(predictions')]

\* C19: an inside-label on an attended token emits nothing; with no span open
\* it leaves none open; with a span open, of whatever type, the span stays
\* open with the type and the start it has, and a token that covers one or
\* more characters moves its end to the token's char_end.
C19_InsideExtendsOpen ==
    [][(ReadsToken /\ IsInside(ReadLabel)) =>
          /\ ner_entities' = ner_entities
          /\ current = <<>> => current' = <<>>
          /\ current # <<>> =>
                 /\ Len(current') = 1
                 /\ current'[1].type = current[1].type
                 /\ current'[1].start = current[1].start
                 /\ (0 <= ReadRange[1] /\ ReadRange[1] < ReadRange[2]) =>
                        current'[1].end = ReadRange[2]]_vars

\* C19 witness: I-PER on the first token found no open span; B-LOC on the
\* second token opened a span that I-PER on the third token extended, and the
\* span was emitted as a LOC span over both tokens.
C19_Witness ==
    /\ dpc = "done"
    /\ Len(predictions) >= 4
    /\ SubSeq(predictions, 1, 4) = <<4, 7, 4, 0>>
    /\ ner_entities = << [type |-> <<"L", "O", "C">>,
                          start |-> token_to_char[2][1],
                          end |-> token_to_char[3][2],
                          text |-> Slice(tok_text, token_to_char[2][1], token_to_char[3][2])] >>
    /\ token_to_char[2][2] < token_to_char[3][2]

\* The positions behind the begin-label at b whose inside-labels extend the
\* span opened there: the attended inside-labels read that follow b with no
\* other label in between.
Extending(b) ==
    {k \in (b + 1)..Len(predictions) :
        \A h \in (b + 1)..k : attention_mask[h] = 1 /\ IsInside(LabelAt(h))}
\* The last position of a non-empty set of positions.
Last(S) == CHOOSE k \in S : \A h \in S : h <= k
\* The end of the span opened at b, given the extending positions that count.
EndOf(b, S) == IF S = {} THEN token_to_char[b][2] ELSE token_to_char[Last(S)][2]

\* C20 as stated: every span, emitted or open, starts at the char_start of its
\* begin-token and ends at the char_end of the last non-structural
\* inside-token that extended it, or of its begin-token if there is none (so
\* structural inside-tokens change neither).
C20_EndAtLastNonStructural ==
    dpc \in {"loop", "flush", "done"} =>
        \A n \in Idx(Opened) :
            /\ Opened[n].start = token_to_char[NthBegin(n)][1]
            /\ Opened[n].end =
                   EndOf(NthBegin(n),
                         {k \in Extending(NthBegin(n)) : NonStructural(token_to_char[k])})

\* C21: every span the decoder has emitted, whatever the labels and whatever
\* token they sit on, satisfies 0 <= start < end <= len(text), and its text
\* field is text[start:end].
C21_EmittedSpanInText ==
    \A n \in Idx(ner_entities) :
        /\ 0 <= ner_entities[n].start
        /\ ner_entities[n].start < ner_entities[n].end
        /\ ner_entities[n].end <= Len(tok_text)
        /\ ner_entities[n].text =
               SubSeq(tok_text, ner_entities[n].start + 1, ner_entities[n].end)

\* ------------------------------------------------------- detect properties
\* The spans source src has put into all_entities, once the recognizers have
\* run and before the consolidator does.
Emitted(src) ==
    IF det_pc \in {"patterns", "overlaps"}
    THEN SelectSeq(all_entities, LAMBDA e : e.source = src)
    ELSE <<>>
\* A trigger word, in either case, ends at position q of the text, and only
\* whitespace lies between it and position p.
TriggerBefore(p) ==
    \E w \in relationship_words :
        \E q \in Len(w)..(p - 1) :
            /\ Lower(SubSeq(det_text, q - Len(w) + 1, q)) = w
            /\ \A k \in (q + 1)..p : IsSpace(det_text[k])

\* C22: every span of the relationship recognizer covers one or two words that
\* each begin with an upper-case letter, starts right behind a trigger word
\* matched in either case and whitespace, and so never includes the trigger;
\* a trigger followed by lower-case words yields no span.
C22_CapitalisedAfterTrigger ==
    \A n \in Idx(Emitted("current_relationship")) :
        LET e == Emitted("current_relationship")[n]
        IN /\ e.text = SubSeq(det_text, e.start + 1, e.end)
           /\ Len(Split(e.text)) \in {1, 2}
           /\ \A k \in Idx(Split(e.text)) : Head(Split(e.text)[k]) \in UpperLetters
           /\ TriggerBefore(e.start)

\* C23: a match of the phonetic pattern is skipped if and only if its string is
\* in the false-positive set or equals a string the dictionary pass emitted on
\* the same text; every other match is emitted with confidence 0.6.
C23_SkippedIffFoundByDictionary ==
    det_pc \in {"patterns", "overlaps"} =>
        \A n \in Idx(PhoneticFindIter(det_text, 0)) :
            LET m == PhoneticFindIter(det_text, 0)[n]
                word == SubSeq(det_text, m[1] + 1, m[2])
                emitted == {k \in Idx(Emitted("current_maori_phonetic")) :
                               /\ Emitted("current_maori_phonetic")[k].start = m[1]
                               /\ Emitted("current_maori_phonetic")[k].end = m[2]}
                by_dictionary == \E k \in Idx(Emitted("current_maori_dict")) :
                                     Emitted("current_maori_dict")[k].text = word
            IN /\ emitted = {} <=> (word \in maori_false_positives \/ by_dictionary)
               /\ \A k \in emitted :
                      /\ Emitted("current_maori_phonetic")[k].confidence = 60
                      /\ Emitted("current_maori_phonetic")[k].text = word

\* What the pattern, dictionary, phonetic and contextual recognizers find on
\* the text, consolidated.
PatternSpans ==
    Consolidated(MaoriNames(det_text) \o RelationshipNames(det_text) \o NzPatterns(det_text))

\* C24: when the classifier step fails, because the model did not load or
\* because it raises during the call, the pass still returns the consolidated
\* spans of the other recognizers for the text.
C24_DegradedStillReturnsPatterns ==
    [][(det_pc' = "done" /\ (nlp = "None" \/ det_pc = "raised"))
           => det_result' = PatternSpans]_vars

C26_FixedPointOnOutput ==
    [][again' # again => again'[1] = Result]_vars

\* C26 witness: the first run dropped a candidate and returned two or more
\* spans, and the run on that list has returned.
C26_Witness ==
    /\ again # <<>>
    /\ Len(Result) >= 2
    /\ Len(handed) > Len(Result)

\* C27: _remove_overlaps leaves the list its caller passed as it was, the same
\* elements in the same order.
C27_CallerListUnchanged ==
    Len(results) = 1 => entities = handed

\* Candidate e is an element of the list the first run returned.
InResult(e) == \E k \in Idx(Result) : Result[k] = e

\* C28 as stated: every candidate handed over that is not in the result
\* overlaps at least one span that is in the result.
C28_LostOverlapsSurvivor ==
    Returned =>
        \A i \in Idx(handed) :
            ~InResult(handed[i]) =>
                \E k \in Idx(Result) : ~Disjoint(handed[i], Result[k])

\* Candidate y overlaps candidate x and wins or holds against it: higher
\* confidence, or equal confidence and a text at least as long.
Beats(y, x) ==
    /\ ~Disjoint(x, y)
    /\ \/ y.confidence > x.confidence
       \/ y.confidence = x.confidence /\ Len(y.text) >= Len(x.text)
\* The positions of the list handed over that a chain of Beats links to a
\* position in S.
RECURSIVE Linked(_)
Linked(S) ==
    LET T == S \cup {i \in Idx(handed) : \E j \in S : Beats(handed[j], handed[i])}
    IN IF T = S THEN S ELSE Linked(T)

\* C28, amended: every candidate handed over that is not in the result is
\* linked to a span in the result by a chain of candidates, each overlapping
\* the one before it with higher confidence, or equal confidence and a text at
\* least as long; the span at the end of the chain need not overlap the lost
\* candidate.
C28_LostLinkedToSurvivor ==
    Returned => Linked({i \in Idx(handed) : InResult(handed[i])}) = Idx(handed)

\* C28 witness: a candidate is lost and no span of the result overlaps it.
C28_Witness ==
    /\ Returned
    /\ \E i \in Idx(handed) :
           /\ ~InResult(handed[i])
           /\ \A k \in Idx(Result) : Disjoint(handed[i], Result[k])

\* How often e occurs in list s.
Count(s, e) == Cardinality({k \in Idx(s) : s[k] = e})

\* C29: every element of the result is a candidate handed over, all six
\* fields unchanged; none occurs in the result more often than in the list
\* handed over; the result is no longer than that list.
C29_OnlySelects ==
    Returned =>
        /\ \A k \in Idx(Result) :
               /\ \E i \in Idx(handed) : handed[i] = Result[k]
               /\ Count(Result, Result[k]) <= Count(handed, Result[k])
        /\ Len(Result) <= Len(handed)

\* C29 witness: a candidate handed over twice is in the result once, beside
\* another span.
C29_Witness ==
    /\ Returned
    /\ Len(Result) >= 2
    /\ \E k \in Idx(Result) :
           Count(handed, Result[k]) = 2 /\ Count(Result, Result[k]) = 1

\* ------------------------------------------------- key rotation properties
\* The key the secret names exists and is associated with the usage plan.
SecretKeyUsable == secret_key_id \in api_keys /\ secret_key_id \in plan_keys

\* C30: whatever rotations run, one after another or overlapping, and
\* whichever step fails, the key the secret names exists and is in the usage
\* plan; a key is deleted only by a rotation that read it as its old key and
\* has created its new key and put it in the usage plan and in the secret, so
\* never while the secret names it; and a rotation that has written the
\* secret returns success whether or not the delete fails.
C30_SecretNamesUsableKey ==
    /\ []SecretKeyUsable
    /\ [][/\ \A k \in api_keys \ api_keys' :
                /\ k # secret_key_id
                /\ \E p \in Rotations :
                       /\ rot_pc[p] = "delete_old"
                       /\ rot_pc'[p] = "done"
                       /\ old_key_id[p] = k
                       /\ new_key_id[p] \in 1..last_key_id
                       /\ new_key_id[p] # k
           /\ \A p \in Rotations :
                  /\ rot_pc[p] = "delete_old" => rot_pc'[p] \in {"delete_old", "done"}
                  /\ rot_pc'[p] = "delete_old" /\ rot_pc[p] # "delete_old"
                         => secret_key_id' = new_key_id[p] /\ new_key_id[p] \in plan_keys
       ]_vars

\* C30 witness: two rotations that both read key 1 as the old key have both
\* finished, a later one's delete finding the key gone, and the key of the
\* rotation that wrote the secret first is left behind.
C30_Witness ==
    /\ \A p \in Rotations : rot_pc[p] = "done"
    /\ old_key_id[1] = 1
    /\ old_key_id[2] = 1
    /\ 1 \notin api_keys
    /\ Cardinality(api_keys) >= 2
====
